---- MODULE Spec2Model ----
(***************************************************************************)
(* Model of the blog of ponbac.xyz: the content collection "blog", the     *)
(* index page src/pages/blog/index.astro (load, sort by pubDate, render a  *)
(* list item per post) and the post layout src/layouts/BlogPost.astro.     *)
(***************************************************************************)
EXTENDS Integers, Sequences, FiniteSets

VARIABLES store, pc, posts, markup, page, build, prevPosts

vars == <<store, pc, posts, markup, page, build, prevPosts>>

(***************************************************************************)
(* Bounds.                                                                 *)
(***************************************************************************)
\* largest number of content files in the collection
MaxPosts == 2
\* number of times the site is built from the same content files
MaxBuilds == 2

(***************************************************************************)
(* JavaScript values of the front-matter fields.                           *)
(***************************************************************************)
Undefined == [kind |-> "undefined"]

Str(s) == [kind |-> "string", str |-> s]

Date(y, m, d) == [kind |-> "date", y |-> y, m |-> m, d |-> d]

\* ToBoolean of the left operand of `&&`: undefined and "" are falsy, every
\* object (a Date included, whatever its time value) is truthy.
Truthy(v) ==
    CASE v.kind = "undefined" -> FALSE
      [] v.kind = "string"    -> v.str # ""
      [] v.kind = "date"      -> TRUE

\* Days from 1970-01-01 to the civil date y-m-d (proleptic Gregorian).
DaysFromCivil(y, m, d) ==
    LET yy  == IF m <= 2 THEN y - 1 ELSE y
        era == yy \div 400
        yoe == yy - era * 400
        mp  == (m + 9) % 12
        doy == (153 * mp + 2) \div 5 + d - 1
        doe == yoe * 365 + yoe \div 4 - yoe \div 100 + doy
    IN  era * 146097 + doe - 719468

\* the day of the month (getDate) taken for the time value
valueOfDayOfMonth(date) == date.d

\* Date.prototype.valueOf(): the time value of the date.  The front matter
\* carries a calendar day and no time of day, so every time value is a whole
\* number of days; the unit here is one day (86 400 000 ms) to stay inside
\* the integers of the checker.  The sign of a difference is the same.
valueOf(date) == DaysFromCivil(date.y, date.m, date.d)

(***************************************************************************)
(* The content files.                                                      *)
(***************************************************************************)
Sep03 == Date(2023, 9, 3)
Sep11 == Date(2023, 9, 11)
Jan05 == Date(2024, 1, 5)
Oct01 == Date(2023, 10, 1)

PubDates == {Sep03, Sep11, Jan05}

UpdatedDates == {Oct01}

Titles == {"Part 1: CLI tool", "Part 1: CI validation"}

HeroImages == {Str(""), Str("/images/translations-1-hero.webp")}

\* slug of the i-th content file, derived from its file name
SlugOf(i) == i

\* a content file: front matter of a post (pubDate may be missing)
FrontMatter ==
    [title       : Titles,
     description : {"description"},
     pubDate     : PubDates \cup {Undefined},
     updatedDate : UpdatedDates \cup {Undefined},
     heroImage   : HeroImages \cup {Undefined}]

Stores == UNION {[1..n -> FrontMatter] : n \in 0..MaxPosts}

(***************************************************************************)
(* Content store: getCollection("blog").                                   *)
(***************************************************************************)
\* the schema of the collection requires pubDate
ValidEntry(fm) == fm.pubDate # Undefined

ValidStore(s) == \A i \in 1..Len(s) : ValidEntry(s[i])

\* the entries handed over by the content store, in the order of the store
getCollection(s) == [i \in 1..Len(s) |-> [slug |-> SlugOf(i), data |-> s[i]]]

(***************************************************************************)
(* Post index builder: posts.sort((a, b) => b.pubDate - a.pubDate).        *)
(***************************************************************************)
\* the comparator with its operands swapped (oldest first)
compareAscending(a, b) == valueOf(a.data.pubDate) - valueOf(b.data.pubDate)

\* a comparator that answers "is b newer" with 1 or 0 and is never negative
compareBoolean(a, b) ==
    IF valueOf(b.data.pubDate) > valueOf(a.data.pubDate) THEN 1 ELSE 0

compare(a, b) == valueOf(b.data.pubDate) - valueOf(a.data.pubDate)

\* an insertion that puts x before the elements it compares equal to
RECURSIVE InsertBeforeEqual(_, _)
InsertBeforeEqual(sorted, x) ==
    IF sorted = <<>> THEN <<x>>
    ELSE IF compare(x, Head(sorted)) <= 0
         THEN <<x>> \o sorted
         ELSE <<Head(sorted)>> \o InsertBeforeEqual(Tail(sorted), x)

\* one step of the (stable) insertion sort the engine runs on short arrays:
\* x goes before the first element it must precede, after equal elements
RECURSIVE Insert(_, _)
Insert(sorted, x) ==
    IF sorted = <<>> THEN <<x>>
    ELSE IF compare(x, Head(sorted)) < 0
         THEN <<x>> \o sorted
         ELSE <<Head(sorted)>> \o Insert(Tail(sorted), x)

RECURSIVE SortFrom(_, _, _)
SortFrom(arr, k, acc) ==
    IF k > Len(arr) THEN acc ELSE SortFrom(arr, k + 1, Insert(acc, arr[k]))

\* a sort whose loop starts one element late
sortSkipFirst(arr) == SortFrom(arr, 2, <<>>)

\* the array as the content store returned it, the .sort call left out
sortSkipped(arr) == arr

sort(arr) == SortFrom(arr, 1, <<>>)

(***************************************************************************)
(* Layout renderer.                                                        *)
(***************************************************************************)
NoMarkup == [emitted |-> FALSE, items |-> <<>>]

\* a list item whose link is built from the title instead of the slug
ListItemHrefFromTitle(post) ==
    [href    |-> <<"/blog/", post.data.title, "/">>,
     img     |-> TRUE,
     src     |-> post.data.heroImage,
     imgName |-> <<post.data.title, "heroImage">>,
     title   |-> post.data.title,
     date    |-> post.data.pubDate,
     dateName |-> <<post.data.title, "pubDate">>]

\* one <li> of the index page
ListItem(post) ==
    [href    |-> <<"/blog/", post.slug, "/">>,
     img     |-> TRUE,
     src     |-> post.data.heroImage,
     imgName |-> <<post.data.title, "heroImage">>,
     title   |-> post.data.title,
     date    |-> post.data.pubDate,
     dateName |-> <<post.data.title, "pubDate">>]

NoPage == [emitted |-> FALSE]

\* the layout with the guard `updatedDate &&` left out
BlogPostUpdatedUnguarded(props) ==
    [emitted     |-> TRUE,
     header      |-> TRUE,
     img         |-> Truthy(props.heroImage),
     src         |-> IF Truthy(props.heroImage) THEN props.heroImage ELSE Undefined,
     imgName     |-> <<props.title, "heroImage">>,
     date        |-> props.pubDate,
     dateName    |-> <<props.title, "pubDate">>,
     lastUpdated |-> TRUE,
     updated     |-> props.updatedDate,
     title       |-> props.title,
     slot        |-> TRUE,
     props       |-> props]

\* the layout with the guard `heroImage &&` left out, as on the index page
BlogPostHeroUnguarded(props) ==
    [emitted     |-> TRUE,
     header      |-> TRUE,
     img         |-> TRUE,
     src         |-> props.heroImage,
     imgName     |-> <<props.title, "heroImage">>,
     date        |-> props.pubDate,
     dateName    |-> <<props.title, "pubDate">>,
     lastUpdated |-> Truthy(props.updatedDate),
     updated     |-> IF Truthy(props.updatedDate) THEN props.updatedDate ELSE Undefined,
     title       |-> props.title,
     slot        |-> TRUE,
     props       |-> props]

\* a layout that reads a property of heroImage before testing it: a
\* TypeError leaves the page unrendered when the field is absent
BlogPostThrowing(props) ==
    IF props.heroImage = Undefined
    THEN [emitted |-> FALSE, error |-> "TypeError"]
    ELSE [emitted     |-> TRUE,
          header      |-> TRUE,
          img         |-> Truthy(props.heroImage),
          src         |-> IF Truthy(props.heroImage) THEN props.heroImage ELSE Undefined,
          imgName     |-> <<props.title, "heroImage">>,
          date        |-> props.pubDate,
          dateName    |-> <<props.title, "pubDate">>,
          lastUpdated |-> Truthy(props.updatedDate),
          updated     |-> IF Truthy(props.updatedDate) THEN props.updatedDate ELSE Undefined,
          title       |-> props.title,
          slot        |-> TRUE,
          props       |-> props]

\* a layout that emits the publish date inside the `updatedDate &&` block
BlogPostDateInsideGuard(props) ==
    [emitted     |-> TRUE,
     header      |-> TRUE,
     img         |-> Truthy(props.heroImage),
     src         |-> IF Truthy(props.heroImage) THEN props.heroImage ELSE Undefined,
     imgName     |-> <<props.title, "heroImage">>,
     date        |-> IF Truthy(props.updatedDate) THEN props.pubDate ELSE Undefined,
     dateName    |-> <<props.title, "pubDate">>,
     lastUpdated |-> Truthy(props.updatedDate),
     updated     |-> IF Truthy(props.updatedDate) THEN props.updatedDate ELSE Undefined,
     title       |-> props.title,
     slot        |-> TRUE,
     props       |-> props]

\* a layout that names the hero image transition <title>-hero
BlogPostHeroSuffix(props) ==
    [emitted     |-> TRUE,
     header      |-> TRUE,
     img         |-> Truthy(props.heroImage),
     src         |-> IF Truthy(props.heroImage) THEN props.heroImage ELSE Undefined,
     imgName     |-> <<props.title, "hero">>,
     date        |-> props.pubDate,
     dateName    |-> <<props.title, "pubDate">>,
     lastUpdated |-> Truthy(props.updatedDate),
     updated     |-> IF Truthy(props.updatedDate) THEN props.updatedDate ELSE Undefined,
     title       |-> props.title,
     slot        |-> TRUE,
     props       |-> props]

\* a layout with the "Last updated on" block nested in the hero image block
BlogPostNoteInsideHero(props) ==
    [emitted     |-> TRUE,
     header      |-> TRUE,
     img         |-> Truthy(props.heroImage),
     src         |-> IF Truthy(props.heroImage) THEN props.heroImage ELSE Undefined,
     imgName     |-> <<props.title, "heroImage">>,
     date        |-> props.pubDate,
     dateName    |-> <<props.title, "pubDate">>,
     lastUpdated |-> Truthy(props.heroImage) /\ Truthy(props.updatedDate),
     updated     |-> IF Truthy(props.heroImage) /\ Truthy(props.updatedDate)
                     THEN props.updatedDate ELSE Undefined,
     title       |-> props.title,
     slot        |-> TRUE,
     props       |-> props]

\* the page the BlogPost layout produces for the props of one entry
BlogPost(props) ==
    [emitted     |-> TRUE,
     header      |-> TRUE,
     img         |-> Truthy(props.heroImage),
     src         |-> IF Truthy(props.heroImage) THEN props.heroImage ELSE Undefined,
     imgName     |-> <<props.title, "heroImage">>,
     date        |-> props.pubDate,
     dateName    |-> <<props.title, "pubDate">>,
     lastUpdated |-> Truthy(props.updatedDate),
     updated     |-> IF Truthy(props.updatedDate) THEN props.updatedDate ELSE Undefined,
     title       |-> props.title,
     slot        |-> TRUE,
     props       |-> props]

(***************************************************************************)
(* The build.                                                              *)
(***************************************************************************)
Init ==
    /\ store \in Stores
    /\ pc = "start"
    /\ posts = <<>>
    /\ markup = NoMarkup
    /\ page = NoPage
    /\ build = 1
    /\ prevPosts = <<>>

\* a load that recovers from invalid files by leaving them out
LoadSkippingInvalid ==
    /\ pc = "start"
    /\ posts' = SelectSeq(getCollection(store), LAMBDA e : ValidEntry(e.data))
    /\ pc' = "loaded"
    /\ UNCHANGED <<store, markup, page, build, prevPosts>>

\* a load that treats a collection without entries as a failure
LoadRejectingEmpty ==
    /\ pc = "start"
    /\ ValidStore(store)
    /\ IF Len(store) = 0
       THEN pc' = "loadError" /\ posts' = posts
       ELSE pc' = "loaded" /\ posts' = getCollection(store)
    /\ UNCHANGED <<store, markup, page, build, prevPosts>>

\* await getCollection("blog") resolves with the entries
Load ==
    /\ pc = "start"
    /\ ValidStore(store)
    /\ posts' = getCollection(store)
    /\ pc' = "loaded"
    /\ UNCHANGED <<store, markup, page, build, prevPosts>>

\* await getCollection("blog") rejects: the front-matter script is left
LoadFail ==
    /\ pc = "start"
    /\ ~ValidStore(store)
    /\ pc' = "loadError"
    /\ UNCHANGED <<store, posts, markup, page, build, prevPosts>>

\* the orders of arr in which no older post precedes a newer one
SortedOrders(arr) ==
    LET n     == Len(arr)
        perms == {f \in [1..n -> 1..n] : \A i, j \in 1..n : i # j => f[i] # f[j]}
        seqs  == {[i \in 1..n |-> arr[f[i]]] : f \in perms}
    IN  {p \in seqs : \A i \in 1..(n - 1) : compare(p[i], p[i + 1]) <= 0}

\* a sort that leaves the order of posts of the same date to chance
SortAnyTieOrder ==
    /\ pc = "loaded"
    /\ posts' \in SortedOrders(posts)
    /\ pc' = "sorted"
    /\ UNCHANGED <<store, markup, page, build, prevPosts>>

\* a sort that is started over and over and never hands the list on
SortNeverDone ==
    /\ pc = "loaded"
    /\ posts' = sort(posts)
    /\ pc' = "loaded"
    /\ UNCHANGED <<store, markup, page, build, prevPosts>>

\* .sort(...) on the array the content store returned
Sort ==
    /\ pc = "loaded"
    /\ posts' = sort(posts)
    /\ pc' = "sorted"
    /\ UNCHANGED <<store, markup, page, build, prevPosts>>

\* a template that fills in a default hero image on the entries it renders
RenderIndexMutating ==
    /\ pc = "sorted"
    /\ posts' = [i \in 1..Len(posts) |->
                    [posts[i] EXCEPT !.data.heroImage =
                        IF Truthy(@) THEN @ ELSE Str("/placeholder.png")]]
    /\ markup' = [emitted |-> TRUE,
                  items   |-> [i \in 1..Len(posts) |-> ListItem(posts'[i])]]
    /\ pc' = "done"
    /\ UNCHANGED <<store, page, build, prevPosts>>

\* a template that runs on the array as loaded, before the sort
RenderIndexBeforeSort ==
    /\ pc = "loaded"
    /\ markup' = [emitted |-> TRUE,
                  items   |-> [i \in 1..Len(posts) |-> ListItem(posts[i])]]
    /\ pc' = "done"
    /\ UNCHANGED <<store, posts, page, build, prevPosts>>

\* a template that asks the content store again instead of using posts
RenderIndexReloading ==
    /\ pc = "sorted"
    /\ markup' = [emitted |-> TRUE,
                  items   |-> [i \in 1..Len(store) |-> ListItem(getCollection(store)[i])]]
    /\ pc' = "done"
    /\ UNCHANGED <<store, posts, page, build, prevPosts>>

\* a template that leaves out the last post of the list
RenderIndexDroppingLast ==
    /\ pc = "sorted"
    /\ markup' = [emitted |-> TRUE,
                  items   |-> [i \in 1..(Len(posts) - 1) |-> ListItem(posts[i])]]
    /\ pc' = "done"
    /\ UNCHANGED <<store, posts, page, build, prevPosts>>

\* the template of the index page: posts.map((post) => <li>...</li>)
RenderIndex ==
    /\ pc = "sorted"
    /\ markup' = [emitted |-> TRUE,
                  items   |-> [i \in 1..Len(posts) |-> ListItem(posts[i])]]
    /\ pc' = "done"
    /\ UNCHANGED <<store, posts, page, build, prevPosts>>

\* the page of one post: the BlogPost layout on the data of the entry
RenderPost ==
    /\ pc = "done"
    /\ \E i \in 1..Len(posts) : page' = BlogPost(posts[i].data)
    /\ UNCHANGED <<store, pc, posts, markup, build, prevPosts>>

\* the site is built again from the same content files
Rebuild ==
    /\ pc = "done"
    /\ build < MaxBuilds
    /\ build' = build + 1
    /\ prevPosts' = posts
    /\ pc' = "start"
    /\ posts' = <<>>
    /\ markup' = NoMarkup
    /\ page' = NoPage
    /\ UNCHANGED store

Next ==
    \/ Load
    \/ LoadFail
    \/ Sort
    \/ RenderIndex
    \/ RenderPost
    \/ Rebuild

Spec == Init /\ [][Next]_vars

\* The content files for the runs to completion: whether and when a build
\* ends depends on the number of files and on their pubDate (present or
\* not, and the order the dates impose), so title and updatedDate are fixed.
FairFrontMatter ==
    [title       : {"Part 1: CLI tool"},
     description : {"description"},
     pubDate     : PubDates \cup {Undefined},
     updatedDate : {Undefined},
     heroImage   : {Undefined, Str("/images/translations-1-hero.webp")}]

FairStores == UNION {[1..n -> FairFrontMatter] : n \in 0..MaxPosts}

FairInit ==
    /\ store \in FairStores
    /\ pc = "start"
    /\ posts = <<>>
    /\ markup = NoMarkup
    /\ page = NoPage
    /\ build = 1
    /\ prevPosts = <<>>

\* The build of the index page runs to its end: the front-matter script and
\* the template are one synchronous pass after the awaited load, so each of
\* its steps is taken once it is enabled.  Rendering further post pages and
\* building again are not forced.
FairSpec ==
    /\ FairInit
    /\ [][Next]_vars
    /\ WF_vars(Load)
    /\ WF_vars(LoadFail)
    /\ WF_vars(Sort)
    /\ WF_vars(RenderIndex)

(***************************************************************************)
(* Properties.                                                             *)
(***************************************************************************)
\* the list the content store hands to the index builder
Input == getCollection(store)

\* the index builder has produced its list
Sorted == pc \in {"sorted", "done"}

\* position of the entry with this slug in the list handed over
InputPos(slug) == CHOOSE k \in 1..Len(Input) : Input[k].slug = slug

\* C1: the list produced by the index builder is ordered by pubDate
\* descending: at adjacent positions i, i+1, pubDate[i] >= pubDate[i+1].
C1_NewestFirst ==
    Sorted =>
        \A i \in 1..(Len(posts) - 1) :
            valueOf(posts[i].data.pubDate) >= valueOf(posts[i + 1].data.pubDate)

\* the sort has moved a newer post in front of an older one
C1_Witness ==
    /\ pc = "sorted"
    /\ Len(posts) >= 2
    /\ posts # Input
    /\ valueOf(posts[1].data.pubDate) > valueOf(posts[2].data.pubDate)

\* C2: the sort is stable: of two entries with equal pubDate, the one that
\* precedes the other in the list handed over precedes it in the output.
C2_Stable ==
    Sorted =>
        \A i, j \in 1..Len(posts) :
            (/\ i < j
             /\ valueOf(posts[i].data.pubDate) = valueOf(posts[j].data.pubDate))
            => InputPos(posts[i].slug) < InputPos(posts[j].slug)

\* two posts of the same date have been sorted
C2_Witness ==
    /\ pc = "sorted"
    /\ \E i, j \in 1..Len(posts) :
        /\ i < j
        /\ posts[i].data.pubDate = posts[j].data.pubDate
        /\ posts[i].data.title # posts[j].data.title

\* C3: the output is a permutation of the input: every entry handed over
\* occurs exactly once in the output and the output holds no other entry.
C3_Permutation ==
    Sorted =>
        /\ Len(posts) = Len(Input)
        /\ \A k \in 1..Len(Input) :
            Cardinality({j \in 1..Len(posts) : posts[j].slug = Input[k].slug}) = 1
        /\ \A j \in 1..Len(posts) :
            \E k \in 1..Len(Input) : posts[j].slug = Input[k].slug

\* the last entry handed over has become the first of the output
C3_Witness ==
    /\ pc = "sorted"
    /\ Len(posts) >= 2
    /\ posts[1].slug = Input[Len(Input)].slug

\* C4: the page of a post has the "Last updated on" line, with the
\* updatedDate, if and only if the entry has an updatedDate.
C4_LastUpdatedIffPresent ==
    page.emitted =>
        /\ page.lastUpdated <=> (page.props.updatedDate # Undefined)
        /\ page.lastUpdated => page.updated = page.props.updatedDate
        /\ ~page.lastUpdated => page.updated = Undefined

\* a post with an updatedDate has been rendered with the line
C4_Witness ==
    /\ page.emitted
    /\ page.props.updatedDate \in UpdatedDates
    /\ page.lastUpdated

\* C5 as stated: the page of a post has the hero img element if and only
\* if the entry has a heroImage.
C5_ImgIffPresent ==
    page.emitted => (page.img <=> (page.props.heroImage # Undefined))

\* C5 amended: the page of a post has the hero img element if and only if
\* the entry has a heroImage that is not the empty string.
C5_ImgIffNonEmpty ==
    page.emitted =>
        /\ page.img <=>
            (page.props.heroImage # Undefined /\ page.props.heroImage # Str(""))
        /\ page.img => page.src = page.props.heroImage

\* a post whose heroImage is the empty string has been rendered without img
C5_Witness ==
    /\ page.emitted
    /\ page.props.heroImage = Str("")
    /\ ~page.img

\* C6: no list item of the index has an img element for an entry without
\* heroImage.
C6_IndexSkipsMissingImage ==
    markup.emitted =>
        \A i \in 1..Len(markup.items) :
            posts[i].data.heroImage = Undefined => ~markup.items[i].img

\* C7: a post of 2023-09-11 is listed before a post of 2023-09-03, whatever
\* the order in which the two were handed over.
C7_Sep11BeforeSep03 ==
    Sorted =>
        \A i, j \in 1..Len(posts) :
            (posts[i].data.pubDate = Sep11 /\ posts[j].data.pubDate = Sep03)
            => i < j

\* handed over as 09-03, 09-11 and listed as 09-11, 09-03
C7_Witness ==
    /\ pc = "sorted"
    /\ Len(Input) = 2
    /\ Input[1].data.pubDate = Sep03
    /\ Input[2].data.pubDate = Sep11
    /\ posts[1].data.pubDate = Sep11
    /\ posts[2].data.pubDate = Sep03

\* C8: building the index and rendering pages leave every loaded entry as
\* it was loaded: slug, title, description, pubDate, updatedDate and
\* heroImage keep their values, only the order of the list changes.
C8_EntriesUnchanged ==
    pc \in {"loaded", "sorted", "done"} =>
        \A j \in 1..Len(posts) :
            \E k \in 1..Len(store) :
                /\ posts[j].slug = SlugOf(k)
                /\ posts[j].data.title = store[k].title
                /\ posts[j].data.description = store[k].description
                /\ posts[j].data.pubDate = store[k].pubDate
                /\ posts[j].data.updatedDate = store[k].updatedDate
                /\ posts[j].data.heroImage = store[k].heroImage

\* index and a post page rendered, after a sort that changed the order, with
\* an entry that has neither optional field
C8_Witness ==
    /\ pc = "done"
    /\ markup.emitted
    /\ page.emitted
    /\ posts # Input
    /\ \E j \in 1..Len(posts) :
        /\ posts[j].data.heroImage = Undefined
        /\ posts[j].data.updatedDate = Undefined

C10_NoRecovery ==
    ~ValidStore(store) =>
        /\ pc \in {"start", "loadError"}
        /\ posts = <<>>
        /\ ~markup.emitted

\* the load has failed on a store that also has a valid file
C10_Witness ==
    /\ pc = "loadError"
    /\ \E i \in 1..Len(store) : ValidEntry(store[i])
    /\ \E i \in 1..Len(store) : ~ValidEntry(store[i])


\* C11: rendering a post page through the BlogPost layout completes without
\* error for each of the four combinations of updatedDate present or absent
\* and heroImage present or absent: a page that has been rendered is a
\* complete page, and every loaded entry renders to one.
C11_RendersEveryCombination ==
    /\ page # NoPage => page.emitted
    /\ pc = "done" =>
        \A i \in 1..Len(posts) : BlogPost(posts[i].data).emitted

\* a post with neither optional field has been rendered
C11_Witness ==
    /\ page.emitted
    /\ page.props.updatedDate = Undefined
    /\ page.props.heroImage = Undefined
    /\ ~page.img
    /\ ~page.lastUpdated

\* C12: every page of the BlogPost layout has the fixed shell, whichever
\* optional fields are present: header, title of the post, publish date and
\* the slot of the body.
C12_FixedShell ==
    page.emitted =>
        /\ page.header
        /\ page.title = page.props.title
        /\ page.date = page.props.pubDate
        /\ page.date \in PubDates
        /\ page.slot

\* the shell around a post that has a hero image and no updatedDate
C12_Witness ==
    /\ page.emitted
    /\ page.header
    /\ page.slot
    /\ page.img
    /\ page.props.updatedDate = Undefined


\* the steps of one build of the index page, and the start of the next build
PipelineSteps ==
    {<<"start", "loaded">>, <<"start", "loadError">>, <<"loaded", "sorted">>,
     <<"sorted", "done">>, <<"done", "start">>}

\* C13: the index page is produced in the order load, sort, render with no
\* feedback: the build only moves forward through these steps, the load
\* yields the collection as stored and the sort the sorted collection while
\* no markup exists, and markup appears only from the loaded and sorted list.
C13_LoadSortRender ==
    [][/\ (pc' # pc => <<pc, pc'>> \in PipelineSteps)
       /\ (pc' = "loaded" => posts' = getCollection(store) /\ ~markup'.emitted)
       /\ (pc' = "sorted" => posts' = sort(getCollection(store)) /\ ~markup'.emitted)
       /\ ((markup'.emitted /\ ~markup.emitted) =>
              /\ pc = "sorted"
              /\ posts = sort(getCollection(store))
              /\ posts' = posts)]_vars

\* markup of a collection that the sort had to reorder
C13_Witness ==
    /\ pc = "done"
    /\ markup.emitted
    /\ Len(markup.items) >= 2
    /\ posts # Input
    /\ page = NoPage

C15_DistinctHrefs ==
    (/\ markup.emitted
     /\ \A i, j \in 1..Len(posts) : i # j => posts[i].slug # posts[j].slug)
    => \A i, j \in 1..Len(markup.items) :
          i # j => markup.items[i].href # markup.items[j].href

\* two posts that agree in every front-matter field link to different pages
C15_Witness ==
    /\ markup.emitted
    /\ Len(markup.items) >= 2
    /\ posts[1].data = posts[2].data
    /\ posts[1].slug # posts[2].slug
    /\ markup.items[1].href # markup.items[2].href

\* C16: the rendered index has exactly one list item per entry of the
\* sorted list, in the order of the list, and link, title and publish date
\* of the k-th item are those of the k-th sorted entry.
C16_ItemPerEntry ==
    markup.emitted =>
        /\ Len(markup.items) = Len(posts)
        /\ \A k \in 1..Len(posts) :
            /\ markup.items[k].href = <<"/blog/", posts[k].slug, "/">>
            /\ markup.items[k].title = posts[k].data.title
            /\ markup.items[k].date = posts[k].data.pubDate

\* two items that differ in title and date, each from its own entry
C16_Witness ==
    /\ markup.emitted
    /\ Len(markup.items) >= 2
    /\ markup.items[1].title # markup.items[2].title
    /\ markup.items[1].date # markup.items[2].date
    /\ markup.items[1].title = posts[1].data.title
    /\ markup.items[2].date = posts[2].data.pubDate

\* calendar order of two dates, by year, then month, then day
Later(x, y) ==
    \/ x.y > y.y
    \/ (x.y = y.y /\ x.m > y.m)
    \/ (x.y = y.y /\ x.m = y.m /\ x.d > y.d)

Sign(n) == IF n > 0 THEN 1 ELSE IF n < 0 THEN -1 ELSE 0

\* an entry of each publish date (the comparator reads pubDate only)
DatedEntries == {[slug |-> 0, data |-> [pubDate |-> d]] : d \in PubDates}

\* the comparator is transitive on the dates of the domain
TransitiveOnDates ==
    \A a, b, c \in DatedEntries :
        (compare(a, b) <= 0 /\ compare(b, c) <= 0) => compare(a, c) <= 0

\* C17: the comparator is a consistent ordering of valid dates: positive
\* exactly when b is later than a, negative exactly when b is earlier, zero
\* exactly when the dates are the same; compare(a, b) and compare(b, a)
\* have opposite signs and the relation is transitive.
C17_ConsistentComparator ==
    /\ pc \in {"loaded", "sorted"} =>
        \A i, j \in 1..Len(posts) :
            LET a  == posts[i]
                b  == posts[j]
                ab == compare(a, b)
            IN  /\ ab > 0 <=> Later(b.data.pubDate, a.data.pubDate)
                /\ ab < 0 <=> Later(a.data.pubDate, b.data.pubDate)
                /\ ab = 0 <=> a.data.pubDate = b.data.pubDate
                /\ Sign(ab) = -Sign(compare(b, a))
    /\ TransitiveOnDates

\* the sort has compared a post of 2024 with an older post of a later day
\* of the month and put the post of 2024 first
C17_Witness ==
    /\ pc = "sorted"
    /\ Len(posts) >= 2
    /\ posts[1].data.pubDate = Jan05
    /\ posts[2].data.pubDate = Sep11
    /\ compare(posts[1], posts[2]) < 0
    /\ compare(posts[2], posts[1]) > 0


\* the orders in which the content store could hand over the entries of arr
PermutationsOf(arr) ==
    LET n     == Len(arr)
        perms == {f \in [1..n -> 1..n] : \A i, j \in 1..n : i # j => f[i] # f[j]}
    IN  {[i \in 1..n |-> arr[f[i]]] : f \in perms}

\* C18: for a collection with pairwise distinct pubDates the index order
\* does not depend on the order in which the entries are handed over: every
\* permutation of the input sorts to the same list.
C18_OrderIndependent ==
    (/\ pc = "sorted"
     /\ \A i, j \in 1..Len(Input) :
            i # j => valueOf(Input[i].data.pubDate) # valueOf(Input[j].data.pubDate))
    => \A p \in PermutationsOf(Input) : sort(p) = posts

\* two posts of different dates, handed over oldest first
C18_Witness ==
    /\ pc = "sorted"
    /\ Len(Input) >= 2
    /\ valueOf(Input[1].data.pubDate) < valueOf(Input[2].data.pubDate)
    /\ posts = <<Input[2], Input[1]>>

\* C19: the index builder is idempotent: sorting its output again returns
\* the list in the same order, also among entries with equal pubDate.
C19_Idempotent ==
    Sorted => sort(posts) = posts

\* a sorted list with two posts of one date that differ in their hero image
C19_Witness ==
    /\ Sorted
    /\ Len(posts) >= 2
    /\ posts[1].data.pubDate = posts[2].data.pubDate
    /\ posts[1].data.heroImage # posts[2].data.heroImage
    /\ sort(posts) = posts

\* C20: on the index page the view-transition names are pairwise distinct:
\* two posts with different slugs have different <title>-heroImage names
\* and different <title>-pubDate names.
C20_DistinctTransitionNames ==
    markup.emitted =>
        \A i, j \in 1..Len(markup.items) :
            posts[i].slug # posts[j].slug =>
                /\ markup.items[i].imgName # markup.items[j].imgName
                /\ markup.items[i].dateName # markup.items[j].dateName


\* C21: for every post, the view-transition names of its hero image and of
\* its publish date in the list item of the index are the names used for
\* the hero image and the publish date on the page of that post.
C21_SameTransitionNames ==
    (markup.emitted /\ page.emitted) =>
        \A k \in 1..Len(markup.items) :
            posts[k].data = page.props =>
                /\ markup.items[k].dateName = page.dateName
                /\ page.img => markup.items[k].imgName = page.imgName

\* index and page of a post with a hero image, in a collection of two titles
C21_Witness ==
    /\ markup.emitted
    /\ page.emitted
    /\ page.img
    /\ Len(posts) >= 2
    /\ posts[1].data.title # posts[2].data.title
    /\ posts[2].data = page.props
    /\ markup.items[2].imgName = page.imgName

\* the props of an entry with the two optional fields replaced
WithOptional(props, h, u) ==
    [props EXCEPT !.heroImage = h, !.updatedDate = u]

\* in the layout, the hero image follows heroImage only, the note follows
\* updatedDate only, and the shell follows neither
LayoutIndependence ==
    \A p \in {f \in FrontMatter : ValidEntry(f)} :
        \A h \in HeroImages \cup {Undefined} :
            \A u \in UpdatedDates \cup {Undefined} :
                /\ BlogPost(WithOptional(p, p.heroImage, u)).img = BlogPost(p).img
                /\ BlogPost(WithOptional(p, p.heroImage, u)).src = BlogPost(p).src
                /\ BlogPost(WithOptional(p, h, p.updatedDate)).lastUpdated
                        = BlogPost(p).lastUpdated
                /\ BlogPost(WithOptional(p, h, p.updatedDate)).updated
                        = BlogPost(p).updated
                /\ BlogPost(WithOptional(p, h, u)).title = BlogPost(p).title
                /\ BlogPost(WithOptional(p, h, u)).date = BlogPost(p).date
                /\ BlogPost(WithOptional(p, h, u)).slot = BlogPost(p).slot

\* C22: the two optional elements of the BlogPost layout are decided
\* independently: the hero image element depends on heroImage only, the
\* "Last updated on" note on updatedDate only, and neither field changes
\* the other element, the title, the publish date or the body.
C22_IndependentOptionals ==
    /\ LayoutIndependence
    /\ page.emitted =>
        /\ page.img = Truthy(page.props.heroImage)
        /\ page.lastUpdated = Truthy(page.props.updatedDate)

\* a page with the note and without the hero image
C22_Witness ==
    /\ page.emitted
    /\ ~page.img
    /\ page.lastUpdated
    /\ page.props.heroImage = Undefined

\* C23: for an empty collection the load succeeds, the index builder
\* returns the empty list and the index page is rendered with its shell and
\* a list of zero items.
C23_EmptyCollection ==
    Len(store) = 0 =>
        /\ pc # "loadError"
        /\ posts = <<>>
        /\ pc = "done" => (markup.emitted /\ Len(markup.items) = 0)

\* the index page of an empty collection has been rendered
C23_Witness ==
    /\ store = <<>>
    /\ pc = "done"
    /\ markup.emitted
    /\ markup.items = <<>>


\* C24: a build of the index page finishes: once the load is requested the
\* build reaches the state where the index markup has been produced or the
\* state where the load error has been surfaced; it does not stay in
\* loading, sorting or rendering forever.
C24_BuildFinishes ==
    (pc \in {"start", "loaded", "sorted"})
        ~> (pc = "loadError" \/ (pc = "done" /\ markup.emitted))

\* the second build of a collection of the largest size has produced markup
C24_Witness ==
    /\ pc = "done"
    /\ markup.emitted
    /\ build > 1
    /\ Len(markup.items) = Len(store)
    /\ Len(store) >= 2

====
